---- MODULE Spec2Model ----
(***************************************************************************)
(* Authentication, bearer-token and password-reset subsystem of the        *)
(* SergeAI backend (app/routers/users.py, app/utils/utils.py), its user    *)
(* settings (app/routers/settings.py) and its chat sessions with the       *)
(* keyword triage of the chat responder (app/routers/chat.py).             *)
(*                                                                         *)
(* Time is counted in whole seconds, the resolution of a JWT NumericDate;  *)
(* datetime.utcnow() is the variable clock.  The users table is a          *)
(* sequence indexed by the autoincrement primary key; no handler deletes   *)
(* a row, and the unique email column bounds the rows by the emails used.  *)
(***************************************************************************)
EXTENDS Integers, Sequences, FiniteSets, TLC

VARIABLES
    users,       \* table "users": users[id] is the row with primary key id
    clock,       \* datetime.utcnow(), in seconds
    uuids,       \* number of uuid.uuid4() values drawn so far
    resetLog,    \* resetLog[n]: user and time of the forgot-password call that drew uuid n
    held,        \* access tokens that were returned to clients and are still kept by them
    last,        \* the request handled by the last step, with its response
    chat_sessions,   \* table "chat_sessions", indexed by primary key
    chat_messages,   \* table "chat_messages", indexed by primary key
    openai_api_key,  \* openai.api_key, read from the environment at import
    inflight     \* inflight[w]: the register request that worker w holds
                 \* between its existence check and its insert

\* the chat tables and the configuration of the chat responder
chat == <<chat_sessions, chat_messages, openai_api_key>>

vars == <<users, clock, uuids, resetLog, held, last, chat, inflight>>

----------------------------------------------------------------------------
(* Bounds of the model *)

MaxUuids == 2
MaxHeld == 1
MaxClock == 3601
MaxFragments == 2
MaxSessions == 2
MaxMessages == 5

----------------------------------------------------------------------------
(* Values *)

\* Python None, SQL NULL in a String column, an absent JSON key
NULL == "NULL"
\* SQL NULL in the DateTime column reset_token_expires
NoTime == -1

timedelta_minutes(m) == m * 60
timedelta_hours(h) == h * 3600

ACCESS_TOKEN_EXPIRE_MINUTES == 30

\* access_token_expires = timedelta(minutes=30) of register, login and social-login
access_token_expires == timedelta_minutes(30)

SECRET_KEY == "SECRET_KEY"

\* str(n) of the integers the model uses, and its inverse int(s)
Decimal == <<"1", "2", "3", "4", "5">>
str(n) == Decimal[n]
IsDecimal(s) == \E n \in DOMAIN Decimal : Decimal[n] = s
int(s) == CHOOSE n \in DOMAIN Decimal : Decimal[n] = s

\* str(uuid.uuid4()): the n-th value drawn; two draws never coincide
UuidText == <<"uuid-1", "uuid-2", "uuid-3", "uuid-4", "uuid-5">>
uuid4(n) == UuidText[n]

Emails == {"amy@x.io", "user@google.com"}
Usernames == {"amy", "social_user_google"}
\* every account is registered with the first password; login and
\* reset-password are also tried with the second
RegisterPasswords == {"password-1"}

\* texts that the code takes apart (full names, chat messages) are
\* sequences of characters
AmyLee == <<"A", "m", "y", " ", "L", "e", "e">>
Blank == <<" ">>
\* the accounts of the password and token flows carry the first full name;
\* the chat flow also registers a name that str.split() leaves empty
RegisterFullNames == {AmyLee}
Passwords == {"password-1", "password-2"}
Providers == {"google", "github"}

\* request bodies of verify-reset-token and reset-password are free JSON objects
ResetTokenInputs == {uuid4(n) : n \in 1..MaxUuids} \cup {"never-issued", NULL}
EmailInputs == Emails \cup {NULL}

Ids == DOMAIN users

\* os.getenv("OPENAI_API_KEY"): None, the empty string, or a key
ApiKeys == {NULL, "", "sk-configured"}

\* server processes that handle requests at the same time
Workers == {1, 2}

\* a worker that holds no register request
Idle == [op |-> "idle"]

----------------------------------------------------------------------------
(* Password hashing: passlib CryptContext(schemes=["bcrypt"]).  The random  *)
(* salt is left out: verify accepts exactly the password that was hashed.  *)

hash_password(password) == [scheme |-> "bcrypt", digest |-> password]

verify_password(plain_password, hashed_password) ==
    hashed_password.digest = plain_password

----------------------------------------------------------------------------
(* Bearer tokens: a JWT is its signing key and its claims *)

NoBearer == [key |-> "none", sub |-> NULL, exp |-> NoTime]

jwt_encode(claims, key) == [key |-> key, sub |-> claims.sub, exp |-> claims.exp]

\* variant: the lifetime asked for is ignored and a quarter of an hour is used
create_access_token_15min(data, expires_delta, now) ==
    jwt_encode([sub |-> data.sub, exp |-> now + timedelta_minutes(15)], SECRET_KEY)

\* expire = utcnow() + (expires_delta or timedelta(minutes=ACCESS_TOKEN_EXPIRE_MINUTES))
create_access_token(data, expires_delta, now) ==
    LET expire == now + (IF expires_delta # 0 THEN expires_delta
                         ELSE timedelta_minutes(ACCESS_TOKEN_EXPIRE_MINUTES))
    IN  jwt_encode([sub |-> data.sub, exp |-> expire], SECRET_KEY)

JWTError == [ok |-> FALSE, sub |-> NULL]

\* variant: the exp claim is not validated
jwt_decode_no_exp(token, key, now) ==
    IF token.key # key THEN JWTError
    ELSE [ok |-> TRUE, sub |-> token.sub]

\* variant: the signature is not verified
jwt_decode_unverified(token, key, now) ==
    IF token.exp # NoTime /\ token.exp < now THEN JWTError
    ELSE [ok |-> TRUE, sub |-> token.sub]

\* jose.jwt.decode: signature, then exp (expired when exp < now), claims returned
jwt_decode(token, key, now) ==
    IF token.key # key THEN JWTError
    ELSE IF token.exp # NoTime /\ token.exp < now THEN JWTError
    ELSE [ok |-> TRUE, sub |-> token.sub]

Unauthorized == [status |-> 401, uid |-> 0]

get_current_user(token, db, now) ==
    LET payload == jwt_decode(token, SECRET_KEY, now)
    IN  IF ~payload.ok THEN Unauthorized
        ELSE IF payload.sub = NULL THEN Unauthorized
        ELSE IF ~IsDecimal(payload.sub) THEN Unauthorized
        ELSE IF int(payload.sub) \notin DOMAIN db THEN Unauthorized
        ELSE [status |-> 200, uid |-> int(payload.sub)]

\* variant: the active flag is not looked at
get_current_active_user_any(token, db, now) == get_current_user(token, db, now)

get_current_active_user(token, db, now) ==
    LET current_user == get_current_user(token, db, now)
    IN  IF current_user.status # 200 THEN current_user
        ELSE IF ~db[current_user.uid].is_active THEN [status |-> 400, uid |-> 0]
        ELSE current_user

\* tokens nobody was issued: signed with another key, or signed with the
\* server key over claims that no handler of the server writes
CraftedTokens ==
    { [key |-> "other-key", sub |-> str(1), exp |-> MaxClock + 1],
      [key |-> SECRET_KEY, sub |-> NULL, exp |-> MaxClock + 1],
      [key |-> SECRET_KEY, sub |-> "abc", exp |-> MaxClock + 1],
      [key |-> SECRET_KEY, sub |-> str(2), exp |-> MaxClock + 1] }

BearerInputs == held \cup CraftedTokens

----------------------------------------------------------------------------
(* Requests and responses *)

NoRequest ==
    [op |-> "none", status |-> 0, time |-> 0,
     username |-> NULL, email |-> NULL, password |-> NULL,
     token |-> NULL, provider |-> NULL,
     bearer |-> NoBearer, after_logout |-> FALSE,
     uid |-> 0, access_token |-> NoBearer,
     detail |-> NULL, full_name |-> NULL, worker |-> 0, body |-> NULL,
     session_id |-> 0, content |-> NULL, reply |-> NULL,
     llm |-> "not called", listing |-> <<>>]

Request(op) == [NoRequest EXCEPT !.op = op, !.time = clock]

\* a request to an endpoint behind the bearer-token dependency; after_logout
\* says that the request before it was a successful logout with the same token
BearerRequest(op, bearer) ==
    [Request(op) EXCEPT !.bearer = bearer,
        !.after_logout = (last.op = "logout_user" /\ last.status = 200
                          /\ last.bearer = bearer)]

----------------------------------------------------------------------------
(* The users table *)

\* User(username, email, full_name, hashed_password) with the column
\* defaults; of the five Boolean settings columns, which the handlers treat
\* alike, biometric_lock is kept
NewUser(username, email, full_name, password) ==
    [username |-> username, email |-> email, full_name |-> full_name,
     hashed_password |-> hash_password(password),
     is_active |-> TRUE,
     reset_token |-> NULL, reset_token_expires |-> NoTime,
     theme_preference |-> "light", biometric_lock |-> "false"]

\* variant: the columns carry no UNIQUE constraint
IntegrityError_unconstrained(db, username, email) == FALSE

\* UNIQUE(username), UNIQUE(email): the commit of create_user raises IntegrityError
IntegrityError(db, username, email) ==
    \E i \in DOMAIN db : db[i].username = username \/ db[i].email = email

create_user(db, username, email, full_name, password) ==
    Append(db, NewUser(username, email, full_name, password))

\* init_db(): the tables are created empty
InitTables ==
    /\ users = <<>>
    /\ clock = 0
    /\ uuids = 0
    /\ resetLog = <<>>
    /\ held = {}
    /\ chat_sessions = <<>>
    /\ chat_messages = <<>>
    /\ inflight = [w \in Workers |-> Idle]

\* OPENAI_API_KEY is not in the environment
Init ==
    /\ InitTables
    /\ last = NoRequest
    /\ openai_api_key = NULL

----------------------------------------------------------------------------
(* Time passes between requests: by half an hour, or by one second from a  *)
(* multiple of half an hour, so that every expiry is met exactly and is    *)
(* passed by one second                                                    *)

Tick(d) ==
    /\ clock + d <= MaxClock
    /\ d = 1 => clock % access_token_expires = 0
    /\ clock' = clock + d
    /\ last' = NoRequest
    /\ UNCHANGED <<users, uuids, resetLog, held, chat, inflight>>

----------------------------------------------------------------------------
(* POST /register *)

\* the rows matched by (User.email == email) | (User.username == username)
register_query(db, username, email) ==
    {i \in DOMAIN db : db[i].email = email \/ db[i].username = username}

\* the detail of the 400 answer for the row that .first() returned
already_registered(existing_user, email) ==
    IF existing_user.email = email THEN "Email already registered"
    ELSE "Username already taken"

register_user(username, email, full_name, password) ==
    LET req == [Request("register") EXCEPT !.username = username,
                    !.email = email, !.password = password]
        existing == register_query(users, username, email)
        new_id == Len(users) + 1
        access_token == create_access_token([sub |-> str(new_id)],
                            access_token_expires, clock)
    IN  /\ IF existing # {}
           THEN /\ \E existing_user \in existing :
                      last' = [req EXCEPT !.status = 400,
                                 !.detail = already_registered(users[existing_user], email)]
                /\ users' = users
           ELSE /\ users' = create_user(users, username, email, full_name, password)
                /\ last' = [req EXCEPT !.status = 201, !.uid = new_id,
                                !.access_token = access_token]
        /\ UNCHANGED <<clock, uuids, resetLog, held, chat, inflight>>

\* The same handler in a server with several worker processes: between the
\* existence check of one request and its insert, another worker may run.
\* First step: the query of lines 129-131 and the answers of lines 133-143.
register_check(w, username, email, full_name, password) ==
    LET req == [Request("register") EXCEPT !.username = username,
                    !.email = email, !.password = password,
                    !.full_name = full_name, !.worker = w]
        existing == register_query(users, username, email)
    IN  /\ inflight[w] = Idle
        /\ IF existing # {}
           THEN /\ \E existing_user \in existing :
                      last' = [req EXCEPT !.status = 400,
                                 !.detail = already_registered(users[existing_user], email)]
                /\ inflight' = inflight
           ELSE /\ inflight' = [inflight EXCEPT ![w] = req]
                /\ last' = NoRequest
        /\ UNCHANGED <<users, clock, uuids, resetLog, held, chat>>

\* Second step: create_user commits the INSERT; the UNIQUE constraints of
\* username and email are checked by the database at that moment, and the
\* handler turns the IntegrityError into a 400
register_insert(w) ==
    LET req == inflight[w]
        new_id == Len(users) + 1
        access_token == create_access_token([sub |-> str(new_id)],
                            access_token_expires, clock)
    IN  /\ req # Idle
        /\ inflight' = [inflight EXCEPT ![w] = Idle]
        /\ IF IntegrityError(users, req.username, req.email)
           THEN /\ last' = [req EXCEPT !.status = 400, !.time = clock,
                       !.detail = "User registration failed due to data constraints"]
                /\ users' = users
           ELSE /\ users' = create_user(users, req.username, req.email,
                                req.full_name, req.password)
                /\ last' = [req EXCEPT !.status = 201, !.time = clock,
                                !.uid = new_id, !.access_token = access_token]
        /\ UNCHANGED <<clock, uuids, resetLog, held, chat>>

----------------------------------------------------------------------------
(* POST /login *)

\* the rows matched by (User.username == username) | (User.email == username)
authenticate_query(db, username) ==
    {i \in DOMAIN db : db[i].username = username \/ db[i].email = username}

\* variant: the password is not verified
authenticate_user_any_password(db, row, password) == row

\* authenticate_user on the row that .first() returned: the row, or 0 for False
authenticate_user(db, row, password) ==
    IF row = 0 \/ ~verify_password(password, db[row].hashed_password)
    THEN 0
    ELSE row

login_user(username, password) ==
    LET req == [Request("login") EXCEPT !.username = username, !.password = password]
        rows == authenticate_query(users, username)
    IN  /\ \E row \in (IF rows = {} THEN {0} ELSE rows) :
              LET user == authenticate_user(users, row, password)
                  access_token == create_access_token([sub |-> str(user)],
                                      access_token_expires, clock)
              IN  IF user = 0
                  THEN last' = [req EXCEPT !.status = 401,
                                    !.detail = "Incorrect username or password"]
                  ELSE IF ~users[user].is_active
                  THEN last' = [req EXCEPT !.status = 400,
                                    !.detail = "Inactive user account"]
                  ELSE last' = [req EXCEPT !.status = 200, !.uid = user,
                                    !.access_token = access_token]
        /\ UNCHANGED <<users, clock, uuids, resetLog, held, chat, inflight>>

----------------------------------------------------------------------------
(* POST /social-login *)

SocialUsername(provider) ==
    CASE provider = "google" -> "social_user_google"
      [] provider = "apple" -> "social_user_apple"

\* f"{provider.capitalize()} User"
SocialFullName(provider) ==
    CASE provider = "google" -> <<"G", "o", "o", "g", "l", "e", " ", "U", "s", "e", "r">>
      [] provider = "apple" -> <<"A", "p", "p", "l", "e", " ", "U", "s", "e", "r">>

SocialEmail(provider) ==
    CASE provider = "google" -> "user@google.com"
      [] provider = "apple" -> "user@apple.com"

social_login(provider) ==
    LET req == [Request("social_login") EXCEPT !.provider = provider]
    IN  /\ IF provider \notin {"google", "apple"}
           THEN /\ last' = [req EXCEPT !.status = 400]
                /\ users' = users
           ELSE LET email == SocialEmail(provider)
                    username == SocialUsername(provider)
                    rows == {i \in Ids : users[i].email = email}
                    existing_user == IF rows = {} THEN Len(users) + 1
                                     ELSE CHOOSE i \in rows : TRUE
                    access_token == create_access_token([sub |-> str(existing_user)],
                                        access_token_expires, clock)
                IN  /\ IF rows = {} /\ IntegrityError(users, username, email)
                       THEN \* create_user raises; nothing catches it: 500, no commit
                            /\ last' = [req EXCEPT !.status = 500]
                            /\ users' = users
                       ELSE /\ users' = IF rows = {}
                                        THEN create_user(users, username, email,
                                                 SocialFullName(provider),
                                                 "social_login_placeholder")
                                        ELSE users
                            /\ last' = [req EXCEPT !.status = 200, !.uid = existing_user,
                                            !.access_token = access_token]
        /\ UNCHANGED <<clock, uuids, resetLog, held, chat, inflight>>

----------------------------------------------------------------------------
(* POST /auth/forgot-password, /auth/verify-reset-token, /auth/reset-password *)
(* main.py declares a second handler for the forgot-password path after     *)
(* including this router; requests are matched by the router's handler.     *)

\* variant: a token that is already stored is kept
forgot_password_row_keep(user, reset_token, now) ==
    IF user.reset_token # NULL THEN user
    ELSE [user EXCEPT !.reset_token = reset_token,
                      !.reset_token_expires = now + timedelta_hours(1)]

\* variant: the token is stored without its expiry
forgot_password_row_no_expiry(user, reset_token, now) ==
    [user EXCEPT !.reset_token = reset_token]

\* variant: the expiry is set two hours ahead
forgot_password_row_2h(user, reset_token, now) ==
    [user EXCEPT !.reset_token = reset_token,
                 !.reset_token_expires = now + timedelta_hours(2)]

\* the row updated by forgot_password
forgot_password_row(user, reset_token, now) ==
    [user EXCEPT !.reset_token = reset_token,
                 !.reset_token_expires = now + timedelta_hours(1)]

\* variant: an unknown email is answered 404
forgot_password_response_404(found) ==
    IF found
    THEN [status |-> 200,
          message |-> "If an account with that email exists, we've sent a reset link."]
    ELSE [status |-> 404, message |-> "User not found"]

\* the return statements of lines 206 and 216
forgot_password_response(found) ==
    IF found
    THEN [status |-> 200,
          message |-> "If an account with that email exists, we've sent a reset link."]
    ELSE [status |-> 200,
          message |-> "If an account with that email exists, we've sent a reset link."]

forgot_password(email) ==
    LET req == [Request("forgot_password") EXCEPT !.email = email]
        rows == {i \in Ids : users[i].email = email}
        response == forgot_password_response(rows # {})
    IN  /\ last' = [req EXCEPT !.status = response.status, !.detail = response.message]
        /\ IF rows = {}
           THEN UNCHANGED <<users, uuids, resetLog>>
           ELSE LET user == CHOOSE i \in rows : TRUE
                    reset_token == uuid4(uuids + 1)
                IN  /\ uuids < MaxUuids
                    /\ uuids' = uuids + 1
                    /\ resetLog' = Append(resetLog, [uid |-> user, at |-> clock])
                    /\ users' = [users EXCEPT
                                   ![user] = forgot_password_row(@, reset_token, clock)]
        /\ UNCHANGED <<clock, held, chat, inflight>>

\* variant: the filter on the email is missing
reset_token_query_any_email(db, email, token) ==
    {i \in DOMAIN db : db[i].reset_token = token}

\* db.query(User).filter(User.email == email, User.reset_token == token);
\* a None operand compares with IS NULL
reset_token_query(db, email, token) ==
    {i \in DOMAIN db : db[i].email = email /\ db[i].reset_token = token}

\* not user or not user.reset_token_expires or user.reset_token_expires < utcnow()
reset_token_invalid(db, rows, now) ==
    \/ rows = {}
    \/ \A i \in rows : \/ db[i].reset_token_expires = NoTime
                       \/ db[i].reset_token_expires < now

verify_reset_token(email, token) ==
    LET req == [Request("verify_reset_token") EXCEPT !.email = email, !.token = token]
        rows == reset_token_query(users, email, token)
    IN  /\ last' = [req EXCEPT
                      !.status = IF reset_token_invalid(users, rows, clock) THEN 400 ELSE 200]
        /\ UNCHANGED <<users, clock, uuids, resetLog, held, chat, inflight>>

\* bcrypt.hash(new_password): the module bcrypt imported by users.py has
\* hashpw, checkpw, gensalt and kdf but no attribute hash
AttributeError == [scheme |-> "AttributeError", digest |-> NULL]

bcrypt_hash(password) == AttributeError

reset_password(email, token, password) ==
    LET req == [Request("reset_password") EXCEPT !.email = email, !.token = token,
                    !.password = password]
        rows == reset_token_query(users, email, token)
        hashed == bcrypt_hash(password)
    IN  /\ IF reset_token_invalid(users, rows, clock)
           THEN /\ last' = [req EXCEPT !.status = 400]
                /\ users' = users
           ELSE IF hashed = AttributeError
           THEN \* raised before any attribute is assigned; the session closes uncommitted
                /\ last' = [req EXCEPT !.status = 500]
                /\ users' = users
           ELSE LET user == CHOOSE i \in rows : TRUE
                IN  /\ users' = [users EXCEPT ![user].hashed_password = hashed,
                                              ![user].reset_token = NULL,
                                              ![user].reset_token_expires = NoTime]
                    /\ last' = [req EXCEPT !.status = 200, !.uid = user]
        /\ UNCHANGED <<clock, uuids, resetLog, held, chat, inflight>>

----------------------------------------------------------------------------
(* The client side: a token returned by register, login or social-login    *)
(* is kept by its receiver, replacing an older one when the store is full   *)

KeepToken ==
    /\ last.access_token # NoBearer
    /\ last.access_token \notin held
    /\ \/ /\ Cardinality(held) < MaxHeld
          /\ held' = held \cup {last.access_token}
       \/ /\ Cardinality(held) >= MaxHeld
          /\ \E old \in held : held' = (held \ {old}) \cup {last.access_token}
    /\ UNCHANGED <<users, clock, uuids, resetLog, last, chat, inflight>>

----------------------------------------------------------------------------
(* Endpoints behind Depends(get_current_active_user) *)

\* GET /me
get_current_user_profile(bearer) ==
    LET auth == get_current_active_user(bearer, users, clock)
        req == BearerRequest("get_current_user_profile", bearer)
    IN  /\ last' = [req EXCEPT !.status = auth.status, !.uid = auth.uid]
        /\ UNCHANGED <<users, clock, uuids, resetLog, held, chat, inflight>>

\* variant: the row is deleted
deactivate_delete_row(db, uid) ==
    SubSeq(db, 1, uid - 1) \o SubSeq(db, uid + 1, Len(db))

\* current_user.is_active = False; db.commit()
deactivate(db, uid) == [db EXCEPT ![uid].is_active = FALSE]

\* DELETE /me
delete_user_account(bearer) ==
    LET auth == get_current_active_user(bearer, users, clock)
        req == BearerRequest("delete_user_account", bearer)
    IN  /\ last' = [req EXCEPT !.status = auth.status, !.uid = auth.uid]
        /\ users' = IF auth.status # 200 THEN users
                    ELSE deactivate(users, auth.uid)
        /\ UNCHANGED <<clock, uuids, resetLog, held, chat, inflight>>

\* DELETE /api/v1/settings/delete-account
delete_account_request(bearer) ==
    LET auth == get_current_active_user(bearer, users, clock)
        req == BearerRequest("delete_account_request", bearer)
    IN  /\ last' = [req EXCEPT !.status = auth.status, !.uid = auth.uid]
        /\ users' = IF auth.status # 200 THEN users
                    ELSE deactivate(users, auth.uid)
        /\ UNCHANGED <<clock, uuids, resetLog, held, chat, inflight>>

\* A UserSettings body: each field is absent from the JSON, null, or a
\* value; the Booleans of the settings are written as in JSON
Absent == "absent"
SettingsBodies ==
    { [theme_preference |-> Absent, biometric_lock |-> Absent],
      [theme_preference |-> NULL, biometric_lock |-> Absent],
      [theme_preference |-> "dark", biometric_lock |-> NULL],
      [theme_preference |-> Absent, biometric_lock |-> "true"] }

\* the keys of settings_data.dict(exclude_unset=True, exclude_none=True)
settings_dict(body) == {k \in DOMAIN body : body[k] \notin {Absent, NULL}}

\* update_user_settings: setattr for every key, commit
update_user_settings(db, uid, body) ==
    LET keys == settings_dict(body)
    IN  [db EXCEPT
           ![uid].theme_preference =
               IF "theme_preference" \in keys THEN body.theme_preference ELSE @,
           ![uid].biometric_lock =
               IF "biometric_lock" \in keys THEN body.biometric_lock ELSE @]

\* settings.py raises HTTPException(400, "No valid settings provided") inside
\* its try block; HTTPException is an Exception, so the except clause of
\* line 76 catches it and raises HTTPException(500) in its place
no_valid_settings_in_update_settings == 500

\* users.py raises the same exception inside its try block; its except
\* clause of line 276 raises HTTPException(400)
no_valid_settings_in_update_user_profile == 400

\* PUT /api/v1/settings/
update_settings(bearer, body) ==
    LET auth == get_current_active_user(bearer, users, clock)
        req == [BearerRequest("update_settings", bearer) EXCEPT !.body = body]
    IN  /\ IF auth.status # 200
           THEN /\ last' = [req EXCEPT !.status = auth.status]
                /\ users' = users
           ELSE IF settings_dict(body) = {}
           THEN /\ last' = [req EXCEPT !.uid = auth.uid,
                               !.status = no_valid_settings_in_update_settings]
                /\ users' = users
           ELSE /\ users' = update_user_settings(users, auth.uid, body)
                /\ last' = [req EXCEPT !.status = 200, !.uid = auth.uid]
        /\ UNCHANGED <<clock, uuids, resetLog, held, chat, inflight>>

\* PUT /api/v1/users/me
update_user_profile(bearer, body) ==
    LET auth == get_current_active_user(bearer, users, clock)
        req == [BearerRequest("update_user_profile", bearer) EXCEPT !.body = body]
    IN  /\ IF auth.status # 200
           THEN /\ last' = [req EXCEPT !.status = auth.status]
                /\ users' = users
           ELSE IF settings_dict(body) = {}
           THEN /\ last' = [req EXCEPT !.uid = auth.uid,
                               !.status = no_valid_settings_in_update_user_profile]
                /\ users' = users
           ELSE /\ users' = update_user_settings(users, auth.uid, body)
                /\ last' = [req EXCEPT !.status = 200, !.uid = auth.uid]
        /\ UNCHANGED <<clock, uuids, resetLog, held, chat, inflight>>

\* variant: logout invalidates the account of the token
logout_commit_revoke(db, uid) == [db EXCEPT ![uid].is_active = FALSE]

\* what logout_user writes to the database: nothing
logout_commit(db, uid) == db

\* POST /logout
logout_user(bearer) ==
    LET auth == get_current_active_user(bearer, users, clock)
        req == BearerRequest("logout_user", bearer)
    IN  /\ last' = [req EXCEPT !.status = auth.status, !.uid = auth.uid]
        /\ users' = IF auth.status # 200 THEN users
                    ELSE logout_commit(users, auth.uid)
        /\ UNCHANGED <<clock, uuids, resetLog, held, chat, inflight>>

----------------------------------------------------------------------------
(* The chat responder: generate_ai_response *)

\* str.lower() on the characters the messages are written with
lower(c) ==
    CASE c = "D" -> "d" [] c = "I" -> "i" [] c = "E" -> "e"
      [] c = "S" -> "s" [] c = "A" -> "a" [] c = "P" -> "p"
      [] c = "N" -> "n" [] c = "C" -> "c" [] c = "H" -> "h"
      [] OTHER -> c

str_lower(text) == [i \in 1..Len(text) |-> lower(text[i])]

\* keyword in text
contains(text, keyword) ==
    \E i \in 0..(Len(text) - Len(keyword)) :
        SubSeq(text, i + 1, i + Len(keyword)) = keyword

crisis_keywords ==
    << <<"s", "u", "i", "c", "i", "d", "e">>,
       <<"k", "i", "l", "l", " ", "m", "y", "s", "e", "l", "f">>,
       <<"e", "n", "d", " ", "i", "t", " ", "a", "l", "l">>,
       <<"h", "a", "r", "m", " ", "m", "y", "s", "e", "l", "f">>,
       <<"d", "i", "e">>,
       <<"h", "u", "r", "t", " ", "m", "y", "s", "e", "l", "f">> >>

anxiety_keywords ==
    << <<"a", "n", "x", "i", "o", "u", "s">>,
       <<"a", "n", "x", "i", "e", "t", "y">>,
       <<"p", "a", "n", "i", "c">>,
       <<"w", "o", "r", "r", "i", "e", "d">>,
       <<"s", "t", "r", "e", "s", "s", "e", "d">>,
       <<"o", "v", "e", "r", "w", "h", "e", "l", "m", "e", "d">> >>

depression_keywords ==
    << <<"d", "e", "p", "r", "e", "s", "s", "e", "d">>,
       <<"s", "a", "d">>,
       <<"h", "o", "p", "e", "l", "e", "s", "s">>,
       <<"e", "m", "p", "t", "y">>,
       <<"w", "o", "r", "t", "h", "l", "e", "s", "s">>,
       <<"l", "o", "n", "e", "l", "y">> >>

\* any(keyword in user_message_lower for keyword in keywords)
any_keyword_in(keywords, text) ==
    \E k \in DOMAIN keywords : contains(text, keywords[k])

\* the replies of the three tiers; the crisis reply names 988 and 741741
CrisisReply ==
    "I'm really concerned about what you're sharing with me. [...] you can call 988 (Suicide & Crisis Lifeline) or text HOME to 741741. [...]"
AnxietyReply ==
    "I understand that anxiety can be really overwhelming. [...]"
DepressionReply ==
    "I hear that you're going through a difficult time. [...]"

TierReplies == {CrisisReply, AnxietyReply, DepressionReply}

supportive_responses ==
    << "I understand how you're feeling. [...]",
       "That sounds challenging. [...]",
       "I'm here to support you. [...]",
       "Your feelings are valid. [...]",
       "Thank you for sharing that with me. [...]",
       "It's completely normal to have these thoughts. [...]",
       "I appreciate you opening up to me. [...]",
       "You're being very brave by reaching out. [...]",
       "I hear that you're struggling. [...]",
       "Let's take this one step at a time. [...]" >>

\* random.choice(supportive_responses) draws one of the indices
Choices == DOMAIN supportive_responses

\* response.choices[0].message.content.strip() of a call that returned
LLMReply == "completion of gpt-3.5-turbo"

\* openai.ChatCompletion.create(...) and the reading of its result either
\* return a completion or raise (no network, quota, a client library
\* without ChatCompletion, a completion without content)
LLMOutcomes == {"replied", "raised"}

\* if openai.api_key:
truthy(key) == key \notin {NULL, ""}

\* variant: the anxiety keywords are checked before the crisis keywords
triage_anxiety_first(user_message) ==
    LET user_message_lower == str_lower(user_message)
    IN  IF any_keyword_in(anxiety_keywords, user_message_lower) THEN AnxietyReply
        ELSE IF any_keyword_in(crisis_keywords, user_message_lower) THEN CrisisReply
        ELSE IF any_keyword_in(depression_keywords, user_message_lower) THEN DepressionReply
        ELSE NULL

\* the if / elif / elif chain over the three keyword lists: the reply of the
\* first tier with a match, or NULL when the chain falls through
triage(user_message) ==
    LET user_message_lower == str_lower(user_message)
    IN  IF any_keyword_in(crisis_keywords, user_message_lower) THEN CrisisReply
        ELSE IF any_keyword_in(anxiety_keywords, user_message_lower) THEN AnxietyReply
        ELSE IF any_keyword_in(depression_keywords, user_message_lower) THEN DepressionReply
        ELSE NULL

\* variant: the external model is asked first whenever a key is configured
generate_ai_response_llm_first(user_message, api_key, outcome, choice) ==
    IF truthy(api_key) /\ outcome = "replied"
    THEN [reply |-> LLMReply, llm |-> "replied"]
    ELSE IF triage(user_message) # NULL
    THEN [reply |-> triage(user_message),
          llm |-> IF truthy(api_key) THEN "raised" ELSE "not called"]
    ELSE [reply |-> supportive_responses[choice],
          llm |-> IF truthy(api_key) THEN "raised" ELSE "not called"]

\* variant: an exception of the external call reaches the caller
generate_ai_response_no_except(user_message, api_key, outcome, choice) ==
    IF triage(user_message) # NULL
    THEN [reply |-> triage(user_message), llm |-> "not called"]
    ELSE IF truthy(api_key) /\ outcome = "replied"
    THEN [reply |-> LLMReply, llm |-> "replied"]
    ELSE IF truthy(api_key)
    THEN [reply |-> "Exception", llm |-> "raised"]
    ELSE [reply |-> supportive_responses[choice], llm |-> "not called"]

\* generate_ai_response(user_message, session_id, db): the reply, and what
\* became of the call of the external model.  outcome is the outcome of that
\* call if it is made, choice the index random.choice draws if it is reached.
generate_ai_response(user_message, api_key, outcome, choice) ==
    IF triage(user_message) # NULL
    THEN [reply |-> triage(user_message), llm |-> "not called"]
    ELSE IF truthy(api_key) /\ outcome = "replied"
    THEN [reply |-> LLMReply, llm |-> "replied"]
    ELSE [reply |-> supportive_responses[choice],
          llm |-> IF truthy(api_key) THEN "raised" ELSE "not called"]

\* messages: up to MaxFragments pieces, so that keywords of several tiers
\* meet in one message, in either case, and across the joints of the pieces
Fragments ==
    { <<"d", "i", "e">>, <<"D", "i", "E">>, <<"d", "i">>, <<"e">>,
      <<"p", "a", "n", "i", "c">>, <<"P", "A", "N", "I", "C">>,
      <<"s", "a", "d">>, <<"S", "a", "d">>,
      <<"h", "i">>, <<" ">> }

RECURSIVE Texts(_)
Texts(n) ==
    IF n = 0 THEN {<<>>}
    ELSE Texts(n - 1) \cup {t \o f : t \in Texts(n - 1), f \in Fragments}

\* ChatMessageCreate.validate_content: the content is not blank and is
\* passed on stripped of the white space around it
ChatTexts == {t \in Texts(MaxFragments) : t # <<>> /\ t[1] # " " /\ t[Len(t)] # " "}

\* the chat responder on its own: a message is handed to it ...
InitTriage ==
    /\ InitTables
    /\ openai_api_key \in ApiKeys
    /\ \E m \in ChatTexts :
          last = [NoRequest EXCEPT !.op = "generate_ai_response", !.content = m]

\* ... and it returns its reply
call_generate_ai_response(outcome, choice) ==
    LET ai == generate_ai_response(last.content, openai_api_key, outcome, choice)
    IN  /\ last.op = "generate_ai_response"
        /\ last.status = 0
        /\ last' = [last EXCEPT !.reply = ai.reply, !.llm = ai.llm, !.status = 200]
        /\ UNCHANGED <<users, clock, uuids, resetLog, held, chat, inflight>>

----------------------------------------------------------------------------
(* Chat sessions: app/routers/chat.py.  The session_uuid column is left    *)
(* out; no handler reads it.                                               *)

\* str.split(): the words between runs of white space
RECURSIVE split(_)
split(text) ==
    IF text = <<>> THEN <<>>
    ELSE IF Head(text) = " " THEN split(Tail(text))
    ELSE LET ends == {n \in 1..Len(text) : n = Len(text) \/ text[n + 1] = " "}
             n == CHOOSE m \in ends : \A k \in ends : m <= k
         IN  <<SubSeq(text, 1, n)>> \o split(SubSeq(text, n + 1, Len(text)))

\* a text that is handled whole, as one piece
text_of(string) == <<string>>

\* Column(String, default="New Chat") and title="New Chat"
NewChat == <<"N", "e", "w", " ", "C", "h", "a", "t">>

\* f"Hello {first_name}! I'm your SergeAI assistant. ..."
welcome_content(first_name) ==
    <<"Hello ">> \o first_name \o <<"! I'm your SergeAI assistant. [...]">>

\* ChatSession(user_id=current_user.id, title="New Chat") with its defaults
NewSession(user_id, now) ==
    [user_id |-> user_id, title |-> NewChat,
     created_at |-> now, updated_at |-> now, is_active |-> TRUE]

\* variant: every message is stored with the role of the assistant
NewMessage_as_assistant(session_id, role, content, now) ==
    [session_id |-> session_id, role |-> "assistant", content |-> content,
     timestamp |-> now, message_metadata |-> NULL]

\* ChatMessage(session_id, role, content, metadata=...): the keyword
\* metadata names no column (the column is message_metadata), it becomes a
\* plain attribute of the instance and the column stays NULL
NewMessage(session_id, role, content, now) ==
    [session_id |-> session_id, role |-> role, content |-> content,
     timestamp |-> now, message_metadata |-> NULL]

\* session.messages / ChatMessage.session_id == session.id
messages_of(messages, session_id) ==
    {m \in DOMAIN messages : messages[m].session_id = session_id}

\* variant: the filter on the owner is missing
active_session_query_any_user(sessions, session_id, user_id) ==
    {i \in DOMAIN sessions : i = session_id /\ sessions[i].is_active}

\* variant: the filter on is_active is missing
active_session_query_deleted_too(sessions, session_id, user_id) ==
    {i \in DOMAIN sessions : i = session_id /\ sessions[i].user_id = user_id}

\* filter(ChatSession.id == session_id, ChatSession.user_id == current_user.id,
\*        ChatSession.is_active == True) of get_chat_session and send_message
active_session_query(sessions, session_id, user_id) ==
    {i \in DOMAIN sessions :
        i = session_id /\ sessions[i].user_id = user_id /\ sessions[i].is_active}

\* filter(ChatSession.id == session_id, ChatSession.user_id == current_user.id)
\* of delete_chat_session
owned_session_query(sessions, session_id, user_id) ==
    {i \in DOMAIN sessions : i = session_id /\ sessions[i].user_id = user_id}

NotFound == "Chat session not found"

\* GET /sessions with the defaults skip = 0, limit = 20: the active sessions
\* of the user ordered by desc(updated_at); rows with equal updated_at come
\* in an order the database chooses
session_listings(sessions, user_id) ==
    LET rows == {i \in DOMAIN sessions :
                    sessions[i].user_id = user_id /\ sessions[i].is_active}
        n == Cardinality(rows)
    IN  {l \in [1..n -> rows] :
            /\ \A a, b \in 1..n : a # b => l[a] # l[b]
            /\ \A a, b \in 1..n :
                  a < b => sessions[l[a]].updated_at >= sessions[l[b]].updated_at}

get_user_chat_sessions(bearer) ==
    LET auth == get_current_active_user(bearer, users, clock)
        req == BearerRequest("get_user_chat_sessions", bearer)
    IN  /\ IF auth.status # 200
           THEN last' = [req EXCEPT !.status = auth.status]
           ELSE \E l \in session_listings(chat_sessions, auth.uid) :
                    last' = [req EXCEPT !.status = 200, !.uid = auth.uid, !.listing = l]
        /\ UNCHANGED <<users, clock, uuids, resetLog, held, chat, inflight>>

\* POST /sessions
create_chat_session(bearer) ==
    LET auth == get_current_active_user(bearer, users, clock)
        req == BearerRequest("create_chat_session", bearer)
        new_session == Len(chat_sessions) + 1
    IN  /\ IF auth.status # 200
           THEN /\ last' = [req EXCEPT !.status = auth.status]
                /\ UNCHANGED <<chat_sessions, chat_messages>>
           ELSE /\ Len(chat_sessions) < MaxSessions
                /\ Len(chat_messages) < MaxMessages
                \* db.add(new_session); db.commit()
                /\ chat_sessions' = Append(chat_sessions, NewSession(auth.uid, clock))
                /\ LET names == split(users[auth.uid].full_name)
                   IN  IF names = <<>>
                       THEN \* full_name.split()[0] raises IndexError, which nothing
                            \* catches: 500, and the session is already committed
                            /\ chat_messages' = chat_messages
                            /\ last' = [req EXCEPT !.status = 500, !.uid = auth.uid,
                                           !.session_id = new_session]
                       ELSE /\ chat_messages' = Append(chat_messages,
                                   NewMessage(new_session, "assistant",
                                       welcome_content(names[1]), clock))
                            /\ last' = [req EXCEPT !.status = 201, !.uid = auth.uid,
                                           !.session_id = new_session]
        /\ UNCHANGED <<users, clock, uuids, resetLog, held, openai_api_key, inflight>>

\* GET /sessions/{session_id}
get_chat_session(bearer, session_id) ==
    LET auth == get_current_active_user(bearer, users, clock)
        req == [BearerRequest("get_chat_session", bearer) EXCEPT !.session_id = session_id]
        found == active_session_query(chat_sessions, session_id, auth.uid)
    IN  /\ IF auth.status # 200
           THEN last' = [req EXCEPT !.status = auth.status]
           ELSE IF found = {}
           THEN last' = [req EXCEPT !.status = 404, !.uid = auth.uid, !.detail = NotFound]
           ELSE IF messages_of(chat_messages, session_id) # {}
           THEN \* ChatMessageResponse.from_orm(msg) reads msg.metadata, which on a
                \* loaded row is the MetaData of the declarative base and not a
                \* dict: the validation error is caught by nothing
                last' = [req EXCEPT !.status = 500, !.uid = auth.uid]
           ELSE last' = [req EXCEPT !.status = 200, !.uid = auth.uid]
        /\ UNCHANGED <<users, clock, uuids, resetLog, held, chat, inflight>>

\* content[:50] + "..." if len(content) > 50 else content
title_of(content) ==
    IF Len(content) > 50 THEN SubSeq(content, 1, 50) \o <<".", ".", ".">>
    ELSE content

\* the two db.commit() of send_message return, or one of them raises (the
\* database is locked, the connection is lost)
CommitOutcomes == {"committed", "raised", "first raised"}

\* POST /sessions/{session_id}/messages
send_message(bearer, session_id, content, outcome, choice, commit) ==
    LET auth == get_current_active_user(bearer, users, clock)
        req == [BearerRequest("send_message", bearer) EXCEPT
                   !.session_id = session_id, !.content = content]
        found == active_session_query(chat_sessions, session_id, auth.uid)
        user_message == NewMessage(session_id, "user", content, clock)
        ai == generate_ai_response(content, openai_api_key, outcome, choice)
        ai_message == NewMessage(session_id, "assistant", text_of(ai.reply), clock)
    IN  /\ IF auth.status # 200
           THEN /\ last' = [req EXCEPT !.status = auth.status]
                /\ UNCHANGED <<chat_sessions, chat_messages>>
           ELSE IF found = {}
           THEN /\ last' = [req EXCEPT !.status = 404, !.uid = auth.uid, !.detail = NotFound]
                /\ UNCHANGED <<chat_sessions, chat_messages>>
           ELSE /\ Len(chat_messages) + 2 <= MaxMessages
                /\ IF commit = "first raised"
                   THEN \* the commit of line 146 raises: the rollback of line 175
                        \* undoes the user message
                        /\ UNCHANGED <<chat_sessions, chat_messages>>
                        /\ last' = [req EXCEPT !.status = 500, !.uid = auth.uid,
                                       !.detail = "Failed to send message"]
                   ELSE IF commit = "raised"
                   THEN \* the user message was committed at line 146; the rollback
                        \* of line 175 undoes the assistant message, the timestamp
                        \* and the title
                        /\ chat_messages' = Append(chat_messages, user_message)
                        /\ chat_sessions' = chat_sessions
                        /\ last' = [req EXCEPT !.status = 500, !.uid = auth.uid,
                                       !.reply = ai.reply, !.llm = ai.llm,
                                       !.detail = "Failed to send message"]
                   ELSE /\ chat_messages' =
                               Append(Append(chat_messages, user_message), ai_message)
                        /\ chat_sessions' = [chat_sessions EXCEPT
                               ![session_id].updated_at = clock,
                               ![session_id].title =
                                   IF @ = NewChat THEN title_of(content) ELSE @]
                        /\ last' = [req EXCEPT !.status = 201, !.uid = auth.uid,
                                       !.reply = ai.reply, !.llm = ai.llm]
        /\ UNCHANGED <<users, clock, uuids, resetLog, held, openai_api_key, inflight>>

\* session.is_active = False; db.commit().  An UPDATE is sent only if the
\* flag changes, and with it updated_at takes its onupdate value
soft_delete(session, now) ==
    IF session.is_active
    THEN [session EXCEPT !.is_active = FALSE, !.updated_at = now]
    ELSE session

\* DELETE /sessions/{session_id}
delete_chat_session(bearer, session_id) ==
    LET auth == get_current_active_user(bearer, users, clock)
        req == [BearerRequest("delete_chat_session", bearer) EXCEPT
                   !.session_id = session_id]
        found == owned_session_query(chat_sessions, session_id, auth.uid)
    IN  /\ IF auth.status # 200
           THEN /\ last' = [req EXCEPT !.status = auth.status]
                /\ chat_sessions' = chat_sessions
           ELSE IF found = {}
           THEN /\ last' = [req EXCEPT !.status = 404, !.uid = auth.uid, !.detail = NotFound]
                /\ chat_sessions' = chat_sessions
           ELSE /\ chat_sessions' = [chat_sessions EXCEPT
                                        ![session_id] = soft_delete(@, clock)]
                /\ last' = [req EXCEPT !.status = 200, !.uid = auth.uid]
        /\ UNCHANGED <<users, clock, uuids, resetLog, held, chat_messages,
                       openai_api_key, inflight>>

\* the messages sent in the chat flow hold a depression keyword: a short
\* one, and one that is longer than a title
Sad == <<"S", "a", "d">>
LongText == Sad \o [i \in 1..48 |-> "h"]

\* the accounts of the chat flow: one with a full name, one whose full name
\* is blank
ChatAccounts ==
    { [username |-> "amy", email |-> "amy@x.io", full_name |-> AmyLee],
      [username |-> "social_user_google", email |-> "user@google.com",
       full_name |-> Blank] }

----------------------------------------------------------------------------
(* Specifications *)

Elapse == \E d \in {1, access_token_expires} : Tick(d)
Register ==
    \E u \in Usernames, e \in Emails, p \in RegisterPasswords, n \in RegisterFullNames :
        register_user(u, e, n, p)
Login == \E u \in Usernames \cup Emails, p \in Passwords : login_user(u, p)
SocialLogin == \E p \in Providers : social_login(p)
ForgotPassword == \E e \in Emails : forgot_password(e)
VerifyResetToken == \E e \in EmailInputs, t \in ResetTokenInputs : verify_reset_token(e, t)
\* the new password differs from the one the accounts were registered with
ResetPassword ==
    \E e \in EmailInputs, t \in ResetTokenInputs, p \in Passwords \ RegisterPasswords :
        reset_password(e, t, p)
GetProfile == \E b \in BearerInputs : get_current_user_profile(b)
DeleteAccount == \E b \in BearerInputs : delete_user_account(b)
Logout == \E b \in BearerInputs : logout_user(b)

\* requests of the clients that were issued a token
DeleteAccountRequest == \E b \in held : delete_account_request(b)
DeleteMe == \E b \in held : delete_user_account(b)
UpdateSettings == \E b \in held, body \in SettingsBodies : update_settings(b, body)
UpdateUserProfile == \E b \in held, body \in SettingsBodies : update_user_profile(b, body)
RegisterCheck ==
    \E w \in Workers, u \in Usernames, e \in Emails, p \in RegisterPasswords,
       n \in RegisterFullNames : register_check(w, u, e, n, p)
RegisterInsert == \E w \in Workers : register_insert(w)

\* the password-reset flow
NextReset ==
    \/ Elapse
    \/ Register
    \/ ForgotPassword
    \/ VerifyResetToken
    \/ ResetPassword

SpecReset == Init /\ [][NextReset]_vars

\* requests for a reset token, with no time passing
NextForgot ==
    \/ Register
    \/ ForgotPassword
    \/ VerifyResetToken

SpecForgot == Init /\ [][NextForgot]_vars

\* the bearer-token flow
NextAuth ==
    \/ Elapse
    \/ Register
    \/ Login
    \/ SocialLogin
    \/ KeepToken
    \/ GetProfile
    \/ DeleteAccount
    \/ Logout

SpecAuth == Init /\ [][NextAuth]_vars

GenerateAiResponse ==
    \E o \in LLMOutcomes, c \in Choices : call_generate_ai_response(o, c)

\* the chat responder
NextTriage == GenerateAiResponse

SpecTriage == InitTriage /\ [][NextTriage]_vars

\* the user settings, and what is left to an account that was deactivated
NextSettings ==
    \/ Register
    \/ Login
    \/ KeepToken
    \/ UpdateSettings
    \/ UpdateUserProfile
    \/ DeleteMe
    \/ DeleteAccountRequest

SpecSettings == Init /\ [][NextSettings]_vars

\* registration in a server with several workers
NextRegister ==
    \/ RegisterCheck
    \/ RegisterInsert
    \/ SocialLogin

SpecRegister == Init /\ [][NextRegister]_vars

RegisterNamed ==
    \E a \in ChatAccounts, p \in RegisterPasswords :
        register_user(a.username, a.email, a.full_name, p)
SessionIds == 1..MaxSessions
GetUserChatSessions == \E b \in held : get_user_chat_sessions(b)
CreateChatSession == \E b \in held : create_chat_session(b)
GetChatSession == \E b \in held, id \in SessionIds : get_chat_session(b, id)
\* no API key is configured in the chat flow and the message holds a
\* keyword: the external model is not called and no response is drawn
SendMessage ==
    \E b \in held, id \in SessionIds : send_message(b, id, Sad, "raised", 1, "committed")
DeleteChatSession == \E b \in held, id \in SessionIds : delete_chat_session(b, id)

\* the chat sessions
NextChat ==
    \/ RegisterNamed
    \/ KeepToken
    \/ GetUserChatSessions
    \/ CreateChatSession
    \/ GetChatSession
    \/ SendMessage
    \/ DeleteChatSession

SpecChat == Init /\ [][NextChat]_vars

\* the messages of one user: one with a keyword that is longer than a
\* title, and one without a keyword that is the text of the default title
RegisterAmy == \E p \in RegisterPasswords : register_user("amy", "amy@x.io", AmyLee, p)
SendContents == {LongText, NewChat}
\* random.choice draws the last of the supportive responses
SendAnyMessage ==
    \E b \in held, id \in SessionIds, m \in SendContents, k \in CommitOutcomes :
        send_message(b, id, m, "raised", Len(supportive_responses), k)

\* the sending of messages
NextSend ==
    \/ RegisterAmy
    \/ KeepToken
    \/ CreateChatSession
    \/ SendAnyMessage

SpecSend == Init /\ [][NextSend]_vars

\* accounts whose identifiers meet: the username of the second is, as a
\* text, the email of the first (UserCreate asks of a username only that it
\* has three characters); each account has its own password
LoginAccounts ==
    { [username |-> "amy", email |-> "amy@x.io", password |-> "password-1"],
      [username |-> "amy@x.io", email |-> "bob@x.io", password |-> "password-2"] }
RegisterLoginAccount ==
    \E a \in LoginAccounts : register_user(a.username, a.email, AmyLee, a.password)
LoginByEither ==
    \E a \in LoginAccounts, p \in Passwords :
        \E u \in {a.username, a.email} : login_user(u, p)

\* login by username or by email
NextLogin ==
    \/ RegisterLoginAccount
    \/ LoginByEither
    \/ KeepToken
    \/ DeleteMe

SpecLogin == Init /\ [][NextLogin]_vars

\* a settings update that sets the theme, by either route
DarkTheme == [theme_preference |-> "dark", biometric_lock |-> NULL]
SetTheme == \E b \in held : update_settings(b, DarkTheme)
SetMyTheme == \E b \in held : update_user_profile(b, DarkTheme)

\* what the API offers to an account after its deactivation
NextDeactivate ==
    \/ RegisterAmy
    \/ SocialLogin
    \/ Login
    \/ KeepToken
    \/ DeleteMe
    \/ DeleteAccountRequest
    \/ ForgotPassword
    \/ VerifyResetToken
    \/ ResetPassword
    \/ SetTheme
    \/ SetMyTheme

SpecDeactivate == Init /\ [][NextDeactivate]_vars

Next ==
    \/ NextReset \/ NextForgot \/ NextAuth \/ NextTriage \/ NextSettings
    \/ NextRegister \/ NextChat \/ NextSend \/ NextLogin \/ NextDeactivate

Spec == Init /\ [][Next]_vars

----------------------------------------------------------------------------
(* Properties of the password-reset flow, checked under SpecReset *)

ResetOps == {"verify_reset_token", "reset_password"}

\* the request of the last step passed the validity check of
\* verify-reset-token or reset-password (it was not answered 400)
PassedResetCheck(r) == r.op \in ResetOps /\ r.status # 400

\* the uuid draws whose value is the text t
DrawsOf(t) == {n \in 1..uuids : uuid4(n) = t}

\* C1: verify-reset-token and reset-password accept (email, token) only if
\* the token is the reset token stored, at the time of the request, for the
\* user with that email, and that token was drawn by a forgot-password call
\* for this very user; every other request is answered 400.
C1_AcceptsOnlyStoredTokenOfThatUser ==
    [][ /\ PassedResetCheck(last') =>
             \E i \in DOMAIN users, n \in DrawsOf(last'.token) :
                 /\ users[i].email = last'.email
                 /\ users[i].reset_token = last'.token
                 /\ resetLog[n].uid = i
        /\ (last'.op = "verify_reset_token" => last'.status \in {200, 400})
      ]_vars

\* a token stored for one user is presented, within its hour, with the email
\* of another registered user and is rejected
C1_Witness ==
    /\ last.op \in ResetOps
    /\ last.status = 400
    /\ \E i, j \in Ids :
          /\ i # j
          /\ users[i].reset_token = last.token
          /\ last.token # NULL
          /\ last.time < users[i].reset_token_expires
          /\ users[j].email = last.email

\* C2: a reset token is accepted only while the current time is strictly
\* before the stored expiry; at every time t >= reset_token_expires the
\* request is rejected with 400.
C2_RejectedFromExpiryOn ==
    [][ \A i \in DOMAIN users :
            (/\ last'.op \in ResetOps
             /\ users[i].email = last'.email
             /\ users[i].reset_token = last'.token
             /\ users[i].reset_token_expires # NoTime
             /\ last'.time >= users[i].reset_token_expires)
            => last'.status = 400
      ]_vars

\* C3: once reset-password has accepted a token, the user's reset_token and
\* reset_token_expires are cleared, and no token value passes the validity
\* check of reset-password twice.
C3_SingleUse ==
    [][ (last'.op = "reset_password" /\ last'.status # 400) =>
            /\ \A i \in DOMAIN users' :
                   users'[i].email = last'.email =>
                       /\ users'[i].reset_token = NULL
                       /\ users'[i].reset_token_expires = NoTime
            /\ ~(/\ last.op = "reset_password"
                 /\ last.status # 400
                 /\ last.token = last'.token)
      ]_vars

\* C4: reset-password with the user's email, the stored unexpired token and a
\* new password answers 200 and replaces the stored hash: afterwards the new
\* password authenticates the user and every other password does not.
C4_ResetReplacesPassword ==
    [][ \A i \in DOMAIN users :
            (/\ last'.op = "reset_password"
             /\ users[i].email = last'.email
             /\ users[i].reset_token = last'.token
             /\ last'.token # NULL
             /\ users[i].reset_token_expires # NoTime
             /\ last'.time < users[i].reset_token_expires)
            => /\ last'.status = 200
               /\ authenticate_user(users', i, last'.password) = i
               /\ \A p \in Passwords \ {last'.password} :
                      authenticate_user(users', i, p) = 0
      ]_vars

\* C5: a user has at most one active reset token: forgot-password for an
\* existing email stores the token it has just drawn, and a token is accepted
\* only if no later forgot-password call was made for the same user.
C5_OnlyLatestTokenAccepted ==
    [][ /\ (last'.op = "forgot_password" /\ uuids' # uuids) =>
             \E i \in DOMAIN users :
                 /\ users[i].email = last'.email
                 /\ resetLog'[uuids'].uid = i
                 /\ users'[i].reset_token = uuid4(uuids')
        /\ PassedResetCheck(last') =>
             \E n \in DrawsOf(last'.token) :
                 /\ users[resetLog[n].uid].email = last'.email
                 /\ \A m \in (n + 1)..uuids : resetLog[m].uid # resetLog[n].uid
      ]_vars

\* a token superseded by a later forgot-password of the same user is
\* presented with the right email before its own hour has elapsed, and is rejected
C5_Witness ==
    /\ last.op \in ResetOps
    /\ last.status = 400
    /\ \E n \in DrawsOf(last.token) :
          /\ users[resetLog[n].uid].email = last.email
          /\ last.time < resetLog[n].at + 3600
          /\ \E m \in (n + 1)..uuids : resetLog[m].uid = resetLog[n].uid

\* C6: forgot-password stores expiry = issue time + 1 hour, and no token is
\* accepted more than one hour (3600 s) after the forgot-password call that drew it.
C6_OneHourLimit ==
    [][ /\ (last'.op = "forgot_password" /\ uuids' # uuids) =>
             users'[resetLog'[uuids'].uid].reset_token_expires = last'.time + 3600
        /\ PassedResetCheck(last') =>
             \A n \in DrawsOf(last'.token) : last'.time <= resetLog[n].at + 3600
      ]_vars

\* the stored token of the user is presented with the right email more than
\* one hour after it was drawn, and is rejected
C6_Witness ==
    /\ last.op \in ResetOps
    /\ last.status = 400
    /\ \E i \in Ids, n \in DrawsOf(last.token) :
          /\ users[i].email = last.email
          /\ users[i].reset_token = last.token
          /\ resetLog[n].uid = i
          /\ last.time > resetLog[n].at + 3600

----------------------------------------------------------------------------
(* Properties of the bearer tokens, checked under SpecAuth *)

IssuingOps == {"register", "login", "social_login"}
ProtectedOps == {"get_current_user_profile", "delete_user_account", "logout_user"}

\* C7: a token is issued exactly with a 200/201 answer of register, login or
\* social-login; it is signed with the server key, its subject is the id of
\* the user just created (register), authenticated (login) or looked up by
\* the provider's email (social-login), get_current_user maps it back to that
\* user, and its expiry is 30 minutes (1800 s) after the time of issue.
C7_TokenNamesTheUserForHalfAnHour ==
    last.op \in IssuingOps =>
        /\ (last.access_token # NoBearer) <=> (last.status \in {200, 201})
        /\ last.status \in {200, 201} =>
              /\ last.uid \in Ids
              /\ last.access_token.key = SECRET_KEY
              /\ last.access_token.sub = str(last.uid)
              /\ get_current_user(last.access_token, users, last.time)
                     = [status |-> 200, uid |-> last.uid]
              /\ last.access_token.exp = last.time + 30 * 60
              /\ last.op = "register" =>
                     /\ last.uid = Len(users)
                     /\ users[last.uid].username = last.username
                     /\ users[last.uid].email = last.email
              /\ last.op = "login" =>
                     /\ \/ users[last.uid].username = last.username
                        \/ users[last.uid].email = last.username
                     /\ verify_password(last.password, users[last.uid].hashed_password)
              /\ last.op = "social_login" =>
                     users[last.uid].email = SocialEmail(last.provider)

\* the second of two users logs in, some time after the start, and is issued a token
C7_Witness ==
    /\ last.op = "login"
    /\ last.status = 200
    /\ Len(users) = 2
    /\ last.uid = 2
    /\ last.time > 0

\* C8: a request to a protected endpoint whose token's expiry has passed
\* (exp < now) is answered 401, authenticates nobody and changes no row.
C8_ExpiredTokenRejected ==
    [][ (/\ last'.op \in ProtectedOps
         /\ last'.bearer.exp # NoTime
         /\ last'.bearer.exp < last'.time)
        => /\ last'.status = 401
           /\ last'.uid = 0
           /\ users' = users
      ]_vars

\* DELETE /me is called with a token that was issued to an active user and
\* has expired; it is answered 401
C8_Witness ==
    /\ last.op = "delete_user_account"
    /\ last.status = 401
    /\ last.bearer \in held
    /\ last.bearer.exp < last.time
    /\ users[int(last.bearer.sub)].is_active

\* C9: get_current_user lets a request through (no 401) only if the token is
\* signed with the server key, has a subject, the subject parses as an
\* integer and is the id of a stored user; an authenticated request runs as
\* exactly that user; every other token is answered 401.
C9_OnlySignedTokenOfStoredUser ==
    last.op \in ProtectedOps =>
        LET b == last.bearer
            valid == /\ b.key = SECRET_KEY
                     /\ b.sub # NULL
                     /\ IsDecimal(b.sub)
                     /\ int(b.sub) \in Ids
        IN  /\ ~valid => (last.status = 401 /\ last.uid = 0)
            /\ last.status = 200 => (valid /\ last.uid = int(b.sub))
            /\ last.status \in {200, 400, 401}

\* a token signed with the server key whose subject is an integer that is
\* the id of no stored user, while users are stored, is answered 401
C9_Witness ==
    /\ last.op \in ProtectedOps
    /\ last.status = 401
    /\ last.bearer.key = SECRET_KEY
    /\ IsDecimal(last.bearer.sub)
    /\ int(last.bearer.sub) \notin Ids
    /\ Ids # {}

\* C10: tokens are not stored or revoked: logout changes no row, and a token
\* that was issued and has not expired authenticates the active user it
\* names on every protected request, whatever requests came before.
C10_TokensAreNeverRevoked ==
    [][ /\ last'.op = "logout_user" => users' = users
        /\ (/\ last'.op \in ProtectedOps
            /\ last'.bearer \in held
            /\ last'.bearer.exp >= last'.time
            /\ users[int(last'.bearer.sub)].is_active)
           => /\ last'.status = 200
              /\ last'.uid = int(last'.bearer.sub)
      ]_vars

\* the token of a successful logout is presented again by the next request
\* and still authenticates
C10_Witness ==
    /\ last.op = "get_current_user_profile"
    /\ last.after_logout
    /\ last.bearer \in held
    /\ last.status = 200

----------------------------------------------------------------------------
(* Properties of the chat responder, checked under SpecTriage *)

\* the text holds, at some position and in whatever case, one of the keywords
Mentions(text, keywords) ==
    \E k \in DOMAIN keywords :
        \E at \in 0..(Len(text) - Len(keywords[k])) :
            \A j \in 1..Len(keywords[k]) : lower(text[at + j]) = keywords[k][j]

Answered == last.op = "generate_ai_response" /\ last.status = 200

Supportive == {supportive_responses[n] : n \in DOMAIN supportive_responses}

\* C11: generate_ai_response matches the message, case-insensitively and by
\* substring, against the crisis, anxiety and depression keyword lists in
\* this order, and the first tier with a match decides: with a crisis
\* keyword the reply is the crisis reply whatever else the message holds,
\* with an anxiety keyword and no crisis keyword it is the anxiety reply,
\* with only a depression keyword it is the depression reply.
C11_FirstTierWithMatchDecides ==
    Answered =>
        LET crisis == Mentions(last.content, crisis_keywords)
            anxiety == Mentions(last.content, anxiety_keywords)
            depression == Mentions(last.content, depression_keywords)
        IN  /\ crisis => last.reply = CrisisReply
            /\ (~crisis /\ anxiety) => last.reply = AnxietyReply
            /\ (~crisis /\ ~anxiety /\ depression) => last.reply = DepressionReply
            /\ (~crisis /\ ~anxiety /\ ~depression) => last.reply \notin TierReplies

\* a message with a crisis keyword that is not all in lower case, and with an
\* anxiety keyword as well, gets the crisis reply
C11_Witness ==
    /\ Answered
    /\ Mentions(last.content, crisis_keywords)
    /\ ~any_keyword_in(crisis_keywords, last.content)
    /\ Mentions(last.content, anxiety_keywords)
    /\ last.reply = CrisisReply

\* C12: for a message that matches a keyword of any tier the external model
\* is not called, with or without an API key, and the reply is a tier reply;
\* the external model is called only for a message that matches no keyword.
C12_TriageBeforeExternalModel ==
    Answered =>
        LET matched == \/ Mentions(last.content, crisis_keywords)
                       \/ Mentions(last.content, anxiety_keywords)
                       \/ Mentions(last.content, depression_keywords)
        IN  /\ matched => (last.llm = "not called" /\ last.reply \in TierReplies)
            /\ last.llm # "not called" => ~matched

\* an API key is configured, the message matches a keyword, and the external
\* model was not called
C12_Witness ==
    /\ Answered
    /\ truthy(openai_api_key)
    /\ Mentions(last.content, depression_keywords)
    /\ last.llm = "not called"
    /\ last.reply \in TierReplies

\* C13: for a message that matches no keyword the reply is the completion of
\* the external model when a key is configured and the call returned, and
\* one of the ten supportive responses when no key is configured or the call
\* raised; the exception never becomes the result of generate_ai_response.
C13_FallbackToSupportiveResponse ==
    (/\ Answered
     /\ ~Mentions(last.content, crisis_keywords)
     /\ ~Mentions(last.content, anxiety_keywords)
     /\ ~Mentions(last.content, depression_keywords))
    => /\ truthy(openai_api_key) <=> last.llm # "not called"
       /\ last.llm = "replied" => last.reply = LLMReply
       /\ last.llm # "replied" => last.reply \in Supportive
       /\ Cardinality(Supportive) = 10

\* a key is configured, the call of the external model raised, and the
\* reply is one of the supportive responses
C13_Witness ==
    /\ Answered
    /\ truthy(openai_api_key)
    /\ last.llm = "raised"
    /\ last.reply \in Supportive
    /\ triage(last.content) = NULL

----------------------------------------------------------------------------
(* Properties of the settings updates and of deactivated accounts, checked  *)
(* under SpecSettings                                                       *)

\* the endpoints behind Depends(get_current_active_user)
GuardedOps ==
    ProtectedOps \cup
    {"delete_account_request", "update_settings", "update_user_profile",
     "get_user_chat_sessions", "create_chat_session", "get_chat_session",
     "send_message", "delete_chat_session"}

\* the token is signed by the server, has not expired at the time of the
\* request r and names a stored user
NamesUser(r, db) ==
    /\ r.bearer.key = SECRET_KEY
    /\ r.bearer.exp >= r.time
    /\ IsDecimal(r.bearer.sub)
    /\ int(r.bearer.sub) \in DOMAIN db

\* C14: a settings update of an authenticated active user that carries no
\* settable field (every field absent or null) is answered 400 and changes
\* no user, on PUT /api/v1/settings/ and on PUT /api/v1/users/me.
C14_NoSettableFieldIs400 ==
    [][ (/\ last'.op \in {"update_settings", "update_user_profile"}
         /\ get_current_active_user(last'.bearer, users, last'.time).status = 200
         /\ settings_dict(last'.body) = {})
        => /\ last'.status = 400
           /\ users' = users
      ]_vars

\* C16: login with the right password for a user whose is_active is false
\* is answered 400 'Inactive user account' and issues no token, and every
\* endpoint behind get_current_active_user answers a valid unexpired token
\* of an inactive user with 400 and changes nothing.
C16_InactiveUserLockedOut ==
    [][ /\ (/\ last'.op = "login"
            /\ \E i \in authenticate_query(users, last'.username) :
                  /\ verify_password(last'.password, users[i].hashed_password)
                  /\ ~users[i].is_active)
           => /\ last'.status = 400
              /\ last'.detail = "Inactive user account"
              /\ last'.access_token = NoBearer
              /\ users' = users
        /\ (/\ last'.op \in GuardedOps
            /\ NamesUser(last', users)
            /\ ~users[int(last'.bearer.sub)].is_active)
           => /\ last'.status = 400
              /\ users' = users
              /\ chat' = chat
      ]_vars

\* a deactivated user presents the token issued before the deactivation
\* with a settings update that carries a settable field, and gets 400
C16_Witness ==
    /\ last.op = "update_user_profile"
    /\ last.status = 400
    /\ last.bearer \in held
    /\ NamesUser(last, users)
    /\ ~users[int(last.bearer.sub)].is_active
    /\ settings_dict(last.body) # {}

----------------------------------------------------------------------------
(* Properties of login, registration and forgot-password *)

\* C15 (SpecSettings): login issues a token only if the password verifies
\* against the hash of a user whose username or email is the identifier;
\* an unknown identifier and a wrong password get the same answer, 401
\* 'Incorrect username or password'; without a 200 no token is issued, and
\* login never changes a row.
C15_LoginNeedsThePassword ==
    [][ last'.op = "login" =>
          LET matched == authenticate_query(users, last'.username)
              verified == {i \in matched :
                              verify_password(last'.password, users[i].hashed_password)}
          IN  /\ last'.status = 200 =>
                    /\ last'.uid \in verified
                    /\ last'.access_token.sub = str(last'.uid)
              /\ verified = {} =>
                    /\ last'.status = 401
                    /\ last'.detail = "Incorrect username or password"
              /\ last'.status # 200 => last'.access_token = NoBearer
              /\ users' = users
      ]_vars

\* the username of a registered user is given with a password that is not
\* the user's, and the answer is the 401 of an unknown identifier
C15_Witness ==
    /\ last.op = "login"
    /\ last.status = 401
    /\ last.detail = "Incorrect username or password"
    /\ \E i \in Ids :
          /\ users[i].username = last.username
          /\ ~verify_password(last.password, users[i].hashed_password)
    /\ last.access_token = NoBearer

\* no two rows share an email, no two rows share a username
UniqueUsers(db) ==
    \A i, j \in DOMAIN db :
        i # j => (db[i].email # db[j].email /\ db[i].username # db[j].username)

\* C17 (SpecRegister): no two users ever share an email or a username; a
\* register request whose email or username is taken when it is answered
\* gets 400 and creates no user, also when another register request ran
\* between its existence check and its insert.
C17_UniqueEmailAndUsername ==
    [][ /\ UniqueUsers(users')
        /\ (/\ last'.op = "register"
            /\ \E i \in DOMAIN users :
                  \/ users[i].email = last'.email
                  \/ users[i].username = last'.username)
           => /\ last'.status = 400
              /\ users' = users
        /\ (last'.op = "register" /\ last'.status # 201) => users' = users
      ]_vars

\* a register request passed its existence check, another worker inserted a
\* user with the same email before its insert, and the request got 400
C17_Witness ==
    /\ last.op = "register"
    /\ last.status = 400
    /\ last.detail = "User registration failed due to data constraints"
    /\ \E i \in Ids : users[i].email = last.email /\ users[i].username # last.username
    /\ UniqueUsers(users)

\* C18 (SpecForgot): forgot-password gives the same answer, 200 with the same
\* message, whether or not a user with the email is stored; it never adds a
\* row, writes nothing for an unknown email, and for a known email writes
\* the token and the expiry of that user's row only.
C18_ForgotPasswordDoesNotDisclose ==
    [][ last'.op = "forgot_password" =>
          /\ last'.status = 200
          /\ last'.detail = forgot_password_response(TRUE).message
          /\ Len(users') = Len(users)
          /\ \A i \in DOMAIN users :
                IF users[i].email = last'.email
                THEN /\ users'[i].reset_token # NULL
                     /\ users'[i].reset_token_expires # NoTime
                     /\ users'[i] = [users[i] EXCEPT
                            !.reset_token = users'[i].reset_token,
                            !.reset_token_expires = users'[i].reset_token_expires]
                ELSE users'[i] = users[i]
      ]_vars

\* forgot-password is called with an email that no stored user has, while
\* another user is stored, and answers as it does for a known email
C18_Witness ==
    /\ last.op = "forgot_password"
    /\ last.status = 200
    /\ users # <<>>
    /\ \A i \in Ids : users[i].email # last.email /\ users[i].reset_token = NULL

----------------------------------------------------------------------------
(* Properties of the chat sessions, checked under SpecChat *)

SessionOps == {"get_chat_session", "send_message", "delete_chat_session"}

\* the request r comes with a token that authenticates an active user
Authenticated(r, db) == get_current_active_user(r.bearer, db, r.time).status = 200

Caller(r) == int(r.bearer.sub)

\* C19: get_chat_session, send_message and delete_chat_session act on a
\* session only if its user_id is the id of the authenticated user; for a
\* session of another user they answer 404 'Chat session not found', add no
\* message and change no field of any session.
C19_SessionsAreIsolatedPerUser ==
    [][ (last'.op \in SessionOps /\ Authenticated(last', users)) =>
          /\ (/\ last'.session_id \in DOMAIN chat_sessions
              /\ chat_sessions[last'.session_id].user_id # Caller(last'))
             => /\ last'.status = 404
                /\ last'.detail = "Chat session not found"
                /\ chat_messages' = chat_messages
                /\ chat_sessions' = chat_sessions
          /\ last'.status # 404 =>
                /\ last'.session_id \in DOMAIN chat_sessions
                /\ chat_sessions[last'.session_id].user_id = Caller(last')
          /\ \A i \in DOMAIN chat_sessions :
                chat_sessions[i].user_id # Caller(last') =>
                    /\ chat_sessions'[i] = chat_sessions[i]
                    /\ messages_of(chat_messages', i) = messages_of(chat_messages, i)
      ]_vars

\* an active user sends a message to the active session of another user,
\* which holds a message, and gets 404
C19_Witness ==
    /\ last.op = "send_message"
    /\ last.status = 404
    /\ Authenticated(last, users)
    /\ last.session_id \in DOMAIN chat_sessions
    /\ chat_sessions[last.session_id].user_id # Caller(last)
    /\ chat_sessions[last.session_id].is_active
    /\ messages_of(chat_messages, last.session_id) # {}

\* C20: delete_chat_session of an own session answers 200, leaves the
\* session with is_active false and keeps every message; no step makes an
\* inactive session active again or removes a message; an inactive session
\* is not in the session list; get_chat_session and send_message on it
\* answer 404 and change nothing; deleting it again answers 200 and changes
\* nothing.
C20_SoftDeleteIsFinal ==
    [][ /\ \A i \in DOMAIN chat_sessions :
              /\ i \in DOMAIN chat_sessions'
              /\ ~chat_sessions[i].is_active => chat_sessions'[i] = chat_sessions[i]
        /\ SubSeq(chat_messages', 1, Len(chat_messages)) = chat_messages
        /\ (/\ last'.op = "delete_chat_session"
            /\ Authenticated(last', users)
            /\ last'.session_id \in DOMAIN chat_sessions
            /\ chat_sessions[last'.session_id].user_id = Caller(last'))
           => /\ last'.status = 200
              /\ ~chat_sessions'[last'.session_id].is_active
              /\ chat_messages' = chat_messages
        /\ (/\ last'.op \in {"get_chat_session", "send_message"}
            /\ Authenticated(last', users)
            /\ last'.session_id \in DOMAIN chat_sessions
            /\ ~chat_sessions[last'.session_id].is_active)
           => /\ last'.status = 404
              /\ chat_messages' = chat_messages
              /\ chat_sessions' = chat_sessions
        /\ (last'.op = "get_user_chat_sessions" /\ last'.status = 200) =>
              \A k \in DOMAIN last'.listing :
                  /\ chat_sessions[last'.listing[k]].is_active
                  /\ chat_sessions[last'.listing[k]].user_id = Caller(last')
      ]_vars

\* the owner sends a message to the session that the owner has deleted,
\* which still holds its messages, and gets 404
C20_Witness ==
    /\ last.op = "send_message"
    /\ last.status = 404
    /\ Authenticated(last, users)
    /\ last.session_id \in DOMAIN chat_sessions
    /\ chat_sessions[last.session_id].user_id = Caller(last)
    /\ ~chat_sessions[last.session_id].is_active
    /\ messages_of(chat_messages, last.session_id) # {}

----------------------------------------------------------------------------
(* Properties of the sending of messages, checked under SpecSend *)

\* the replies generate_ai_response can return for a message when no API
\* key is configured: the reply of the first keyword tier the lower-cased
\* message mentions, else any of the supportive responses
RepliesFor(content) ==
    IF Mentions(content, crisis_keywords) THEN {CrisisReply}
    ELSE IF Mentions(content, anxiety_keywords) THEN {AnxietyReply}
    ELSE IF Mentions(content, depression_keywords) THEN {DepressionReply}
    ELSE {supportive_responses[c] : c \in DOMAIN supportive_responses}

\* C21: a successful send_message on an active session of the caller
\* appends exactly two messages to that session, the user's message with
\* the submitted content and then one assistant message with the reply
\* computed for that content; it adds no message to any other session.
C21_SendAppendsQuestionAndAnswer ==
    [][ (last'.op = "send_message" /\ last'.status = 201) =>
          LET n == Len(chat_messages)
              s == last'.session_id
          IN  /\ s \in DOMAIN chat_sessions
              /\ chat_sessions[s].is_active
              /\ chat_sessions[s].user_id = Caller(last')
              /\ Len(chat_messages') = n + 2
              /\ SubSeq(chat_messages', 1, n) = chat_messages
              /\ chat_messages'[n + 1].session_id = s
              /\ chat_messages'[n + 1].role = "user"
              /\ chat_messages'[n + 1].content = last'.content
              /\ chat_messages'[n + 2].session_id = s
              /\ chat_messages'[n + 2].role = "assistant"
              /\ \E r \in RepliesFor(last'.content) :
                     chat_messages'[n + 2].content = <<r>>
              /\ \A i \in DOMAIN chat_sessions :
                     i # s => messages_of(chat_messages', i) = messages_of(chat_messages, i)
      ]_vars

\* a message without a keyword was sent with success to one of two sessions
\* that hold their welcome messages; the last supportive response answers it
C21_Witness ==
    /\ last.op = "send_message"
    /\ last.status = 201
    /\ last.content = NewChat
    /\ Len(chat_sessions) = 2
    /\ \A i \in DOMAIN chat_sessions : messages_of(chat_messages, i) # {}
    /\ Len(chat_messages) >= 4
    /\ chat_messages[Len(chat_messages) - 1].role = "user"
    /\ chat_messages[Len(chat_messages)].role = "assistant"
    /\ chat_messages[Len(chat_messages)].content =
           <<supportive_responses[Len(supportive_responses)]>>

\* C22: send_message is all-or-nothing: whenever it answers 500 'Failed to
\* send message', the stored messages and the sessions (title, updated_at)
\* are the same as before the request; no user message is left stored
\* without the assistant reply that answers it.
C22_SendMessageAllOrNothing ==
    [][ (/\ last'.op = "send_message"
         /\ last'.status = 500
         /\ last'.detail = "Failed to send message")
        => /\ chat_messages' = chat_messages
           /\ chat_sessions' = chat_sessions
      ]_vars

\* the successful sends of a session: a user message and, right after it,
\* the assistant message that answers it
sent(messages, session_id) ==
    {k \in DOMAIN messages :
        /\ k + 1 \in DOMAIN messages
        /\ messages[k].session_id = session_id
        /\ messages[k].role = "user"
        /\ messages[k + 1].session_id = session_id
        /\ messages[k + 1].role = "assistant"}

\* C24: the first successful send_message of a session changes the title
\* from 'New Chat' to the message content (its first 50 characters and
\* '...' when longer than 50); no later send_message on that session
\* changes the title, whatever the content of the first message was.
C24_TitleSetByFirstMessageOnly ==
    [][ (last'.op = "send_message" /\ last'.status = 201) =>
          LET s == last'.session_id
              m == last'.content
          IN  IF sent(chat_messages, s) = {}
              THEN /\ chat_sessions[s].title = NewChat
                   /\ chat_sessions'[s].title =
                          IF Len(m) > 50 THEN SubSeq(m, 1, 50) \o <<".", ".", ".">> ELSE m
              ELSE chat_sessions'[s].title = chat_sessions[s].title
      ]_vars

----------------------------------------------------------------------------
(* Properties of the chat sessions, checked under SpecChat *)

\* C23: every chat session created by create_chat_session holds, as its
\* first message, one assistant welcome message, for any registered user,
\* also one whose full_name is empty or only white space.
C23_EverySessionHasWelcomeMessage ==
    \A i \in DOMAIN chat_sessions :
        /\ messages_of(chat_messages, i) # {}
        /\ LET first == CHOOSE k \in messages_of(chat_messages, i) :
                            \A j \in messages_of(chat_messages, i) : k <= j
           IN  /\ chat_messages[first].role = "assistant"
               /\ SubSeq(chat_messages[first].content, 1, 1) = <<"Hello ">>

----------------------------------------------------------------------------
(* Properties of login by username or email, checked under SpecLogin *)

\* C25: for every registered active user, login with the user's own email
\* or own username and the correct password succeeds and returns a token
\* whose subject is that user's id, whatever other accounts are registered,
\* also one whose username is the text of this user's email.
C25_LoginByOwnEmailOrUsername ==
    [][ last'.op = "login" =>
          \A i \in Ids :
              (/\ users[i].is_active
               /\ last'.username \in {users[i].email, users[i].username}
               /\ verify_password(last'.password, users[i].hashed_password))
              => /\ last'.status = 200
                 /\ last'.uid = i
                 /\ last'.access_token.sub = str(i)
      ]_vars

----------------------------------------------------------------------------
(* Properties of deactivated accounts, checked under SpecDeactivate *)

\* C26: once a user's is_active is false, no API operation (login,
\* social-login, forgot/verify/reset password, settings updates, a further
\* delete) sets it back to true, and the user row is never removed: it
\* keeps its id, username, email and full name.
C26_DeactivationIsAbsorbing ==
    [][ /\ Len(users') >= Len(users)
        /\ \A i \in Ids :
              ~users[i].is_active =>
                  /\ ~users'[i].is_active
                  /\ users'[i].username = users[i].username
                  /\ users'[i].email = users[i].email
                  /\ users'[i].full_name = users[i].full_name
      ]_vars

\* forgot-password has written a reset token into the row of a deactivated
\* user, who stays deactivated
C26_Witness ==
    /\ last.op = "forgot_password"
    /\ last.status = 200
    /\ \E i \in Ids :
          /\ users[i].email = last.email
          /\ ~users[i].is_active
          /\ users[i].reset_token # NULL

----------------------------------------------------------------------------
(* Properties of the stored reset token, checked under SpecReset *)

\* C27: in every reachable state a user's reset_token and
\* reset_token_expires are both set or both empty; a verify-reset-token or
\* reset-password request without a token (token = null) is rejected for
\* every user, also for users that never requested a reset.
C27_TokenAndExpiryGoTogether ==
    [][ /\ \A i \in DOMAIN users' :
              (users'[i].reset_token = NULL) <=> (users'[i].reset_token_expires = NoTime)
        /\ (last'.op \in ResetOps /\ last'.token = NULL) =>
              /\ last'.status = 400
              /\ users' = users
      ]_vars

\* reset-password without a token, for the email of a user that holds no
\* reset token while another user holds one, is answered 400
C27_Witness ==
    /\ last.op = "reset_password"
    /\ last.token = NULL
    /\ last.status = 400
    /\ \E i, j \in Ids :
          /\ users[i].email = last.email
          /\ users[i].reset_token = NULL
          /\ users[i].reset_token_expires = NoTime
          /\ users[j].reset_token # NULL
          /\ users[j].reset_token_expires # NoTime

====
